---------------------------- MODULE Spec2Model ----------------------------
(***************************************************************************)
(* eIDSR -> Zebra synchronisation (eidsr-zebra-sync.py).                   *)
(*                                                                         *)
(* run_sync is modelled as a sequential state machine whose steps are the  *)
(* blocks of the function between two loop heads; the origin (eIDSR) and   *)
(* the destination (Zebra) are the environment: every HTTP call draws its  *)
(* response from a small set.  A dhis2 Api call either returns a response  *)
(* with a 2xx status or raises RequestException with the HTTP code.        *)
(* Response bodies of successful tracker POSTs and metadata GETs are JSON; *)
(* a body that does not decode is modelled for the enrollment pages.       *)
(***************************************************************************)
EXTENDS Integers, Sequences, FiniteSets, TLC

VARIABLES
    pc,              \* position of run_sync
    mapping_file,    \* ./config/mappingDictionary.json on disk
    origin_pages,    \* per source program, the pages the origin serves
    mappings,        \* run_sync: mappings (loaded dictionary)
    prog_idx,        \* run_sync: index of prog_id in source_programs
    page,            \* get_all_enrollments: page
    all_instances,   \* get_all_enrollments: all_instances
    failed_page,     \* the page whose request or decoding failed (0: none)
    requests,        \* page requests sent by the current get_all_enrollments call
    instances,       \* run_sync: instances
    target_prog_id,  \* run_sync: target_prog_id
    allowed_teas,    \* run_sync: allowed_teas
    enr_idx,         \* run_sync: position of the "for enr in instances" loop
    sync_queue,      \* run_sync: sync_queue (insertion-ordered dict)
    payload,         \* run_sync: payload['trackedEntities']
    payload_file,    \* content of zebra_payload.json
    tei_idx,         \* post_individual_teis: position of the loop
    success_count,   \* post_individual_teis: success_count
    batch_success,   \* post_data_to_zebra: batch_success
    exit_code,       \* process exit status
    uncaught,        \* exception that left run_sync uncaught, and where it rose
    auth_failed,     \* a connectivity probe raised RequestException
    io,              \* kinds of network requests sent so far
    posts,           \* POSTs sent to the destination tracker endpoint, in order
    analytics_runs,  \* POSTs sent to resourceTables/analytics
    probe_ok,        \* cases whose OU probe answered HTTP 200 in this iteration
    admitted,        \* per program, the cases written to the queue in its iteration
    ebs_payload,     \* per case, the payload written during the PROG_EBS iteration
    source_enrs,     \* per queued case, the origin enrollments its entry was built from
    call             \* a helper applied on its own: its arguments and its result

vars == <<pc, mapping_file, origin_pages, mappings, prog_idx, page, all_instances,
          failed_page, requests, instances, target_prog_id, allowed_teas, enr_idx,
          sync_queue, payload, payload_file, tei_idx, success_count, batch_success,
          exit_code, uncaught, auth_failed, io, posts, analytics_runs, probe_ok, admitted,
          ebs_payload, source_enrs, call>>

\* what no step of run_sync changes: the environment, and the helper call
configVars == <<mapping_file, origin_pages, call>>
fetchVars == <<page, all_instances, failed_page, requests>>
progVars == <<instances, target_prog_id, allowed_teas, enr_idx>>
queueVars == <<sync_queue, probe_ok, admitted, ebs_payload, source_enrs>>
submitVars == <<payload, payload_file, tei_idx, success_count, batch_success, posts,
                analytics_runs>>
exitVars == <<exit_code, uncaught>>

\* everything but pc and call
runVars == <<mapping_file, origin_pages, mappings, prog_idx, fetchVars, progVars,
             queueVars, submitVars, exitVars, auth_failed, io>>

----------------------------------------------------------------------------
(* Bounds *)

MaxStubs == 2
MaxPages == 3
MaxPath == 3
MaxAttrs == 2

----------------------------------------------------------------------------
(* Constants of the script *)

PROG_EBS == "JRuLW57woOB"
PROG_IBS == "xDsAFnQMmeU"
TE_TYPE_ZEBRA == "QH1LBzGrk5g"
source_programs == <<PROG_EBS, PROG_IBS>>
page_size == 50

None == "None"
NoExit == 0 - 1   \* the process is still running

----------------------------------------------------------------------------
(* Python helpers *)

Last(s) == s[Len(s)]

\* str.split(sep) on a string given as a sequence of characters
RECURSIVE split(_, _)
split(s, sep) ==
    IF \A i \in 1..Len(s) : s[i] # sep
    THEN <<s>>
    ELSE LET i == CHOOSE k \in 1..Len(s) :
                      s[k] = sep /\ \A j \in 1..(k - 1) : s[j] # sep
         IN  <<SubSeq(s, 1, i - 1)>> \o split(SubSeq(s, i + 1, Len(s)), sep)

\* dict as a sequence of [key, value] in insertion order
DictKeys(d) == {d[i].key : i \in 1..Len(d)}
DictHas(d, k) == k \in DictKeys(d)
DictGet(d, k) == d[CHOOSE i \in 1..Len(d) : d[i].key = k].value
\* mutant: an assignment always adds an item
DictSet_append(d, k, v) == Append(d, [key |-> k, value |-> v])

\* d[k] = v: an existing key keeps its position
DictSet(d, k, v) ==
    IF DictHas(d, k)
    THEN [i \in 1..Len(d) |-> IF d[i].key = k THEN [key |-> k, value |-> v] ELSE d[i]]
    ELSE Append(d, [key |-> k, value |-> v])
DictValues(d) == [i \in 1..Len(d) |-> d[i].value]

Max(S) == CHOOSE x \in S : \A y \in S : y <= x

\* a dhis2 Api call: a response, or RequestException(code) for a non-2xx status;
\* json tells whether response.json() decodes the body, body is the decoded
\* list (a single object is a list of one)
Resp(code, body) ==
    [raised |-> ~(code \in 200..299), code |-> code, json |-> TRUE, body |-> body]
Undecodable(code) ==
    [raised |-> FALSE, code |-> code, json |-> FALSE, body |-> <<>>]

----------------------------------------------------------------------------
(* The mapping dictionary (config/mappingDictionary.json) *)

\* Org-unit ids and paths are strings, given as sequences of characters.
OuA == <<"o", "A">>
OuB == <<"o", "B">>
OuC == <<"o", "C">>
ZouA == <<"z", "A">>
ZouC == <<"z", "C">>
OriginOUs == {OuA, OuB, OuC}

organisationUnits ==
    (OuA :> [mappedId |-> <<"r", "/">> \o ZouA]) @@ (OuC :> [mappedId |-> ZouC])

trackedEntityAttributesToTEI ==
    ("a1" :> [mappedId |-> "zA1"]) @@ ("a2" :> [mappedId |-> "zA2"])

\* options.values(), in file order; an entry may lack "code" or "mappedCode"
options ==
    << ("code" :> "M") @@ ("mappedCode" :> "MALE"),
       ("code" :> "F") >>

AllTrackerPrograms ==
    (PROG_EBS :> [mappedId |-> "zEBS"]) @@ (PROG_IBS :> [mappedId |-> "zIBS"])

Restrict(f, S) == [x \in S |-> f[x]]

MappingDict(progs) ==
    [organisationUnits |-> organisationUnits,
     trackerPrograms |-> Restrict(AllTrackerPrograms, progs),
     trackedEntityAttributesToTEI |-> trackedEntityAttributesToTEI,
     options |-> options]

\* the mapping file on disk: absent, or a dictionary mapping some of the programs
MappingFiles ==
    {[present |-> FALSE, dict |-> MappingDict({})]}
      \cup {[present |-> TRUE, dict |-> MappingDict(ps)] :
               ps \in {{PROG_EBS, PROG_IBS}, {PROG_EBS}, {PROG_IBS}}}

----------------------------------------------------------------------------
(* The origin (eIDSR) *)

Cases == {"c1", "c2"}

\* an enrollment of the listing: its case and its own id
Stub(c, n) == [trackedEntity |-> c, enrollment |-> n]

\* enrollments the origin holds; createdAt is stored by the origin but is not
\* among the fields run_sync asks for
E1 == [program |-> PROG_EBS, createdAt |-> 2, enrolledAt |-> "d2",
       status |-> "COMPLETED", attributes |-> <<[attribute |-> "a1", value |-> "F"]>>]
E2 == [program |-> PROG_EBS, createdAt |-> 1, enrolledAt |-> "d1",
       status |-> "ACTIVE", attributes |-> <<>>]
E3 == [program |-> PROG_IBS, createdAt |-> 3, enrolledAt |-> "d3",
       status |-> "CANCELLED", attributes |-> <<>>]

EnrollmentLists == {<<>>, <<E1>>, <<E3>>, <<E1, E2>>, <<E1, E3>>, <<E1, E3, E2>>}

CaseAttributes == <<[attribute |-> "a1", value |-> "M"],
                    [attribute |-> "a3", value |-> "X"],
                    [attribute |-> "a2", value |-> "X"]>>

\* org units a case may belong to at the time it is read
CaseOUs(tei_id) == IF tei_id = "c1" THEN {OuA, OuC} ELSE {OuB, OuC}

\* tracker/trackedEntities/{tei_id}: the case as the origin holds it
CaseRecords(tei_id) ==
    {[trackedEntity |-> tei_id, orgUnit |-> ou, attributes |-> CaseAttributes,
      enrollments |-> enrs] : ou \in CaseOUs(tei_id), enrs \in EnrollmentLists}

\* programs/{prog_id}: programTrackedEntityAttributes ids
ProgramAttributeLists == {<<>>, <<"a1", "a3">>}

----------------------------------------------------------------------------
(* The destination (Zebra) *)

\* org units present on the destination
ZebraOUs == {ZouA, OuB}

\* the one enrollment the destination already holds
ZebraEnrollment ==
    [trackedEntity |-> "c1", program |-> "zIBS", orgUnit |-> ZouA, enrollment |-> "zE1"]

\* GET organisationUnits/{ou_uid} on the destination
ProbeResponses(ou_uid) ==
    IF ou_uid \in ZebraOUs
    THEN {Resp(200, <<>>), Resp(203, <<>>), Resp(500, <<>>)}
    ELSE {Resp(404, <<>>)}

\* GET tracker/enrollments on the destination (lookup of an existing enrollment)
ZebraEnrollmentResponses(tei_id, program, ou_uid) ==
    {Resp(500, <<>>),
     IF /\ tei_id = ZebraEnrollment.trackedEntity
        /\ program = ZebraEnrollment.program
        /\ ou_uid = ZebraEnrollment.orgUnit
     THEN Resp(200, <<[enrollment |-> ZebraEnrollment.enrollment]>>)
     ELSE Resp(200, <<>>)}

\* POST tracker and POST resourceTables/analytics on the destination
PostResponses == {Resp(200, <<>>), Resp(409, <<>>)}

\* GET system/info on either server (api.version)
AuthResponses == {Resp(200, <<>>), Resp(401, <<>>), Resp(500, <<>>)}

----------------------------------------------------------------------------
(* The origin's answers *)

\* GET tracker/enrollments, page p of a program: the page, an HTTP error, or a
\* body that does not decode
PageOf(listing, p) == IF p <= Len(listing) THEN listing[p] ELSE <<>>

PageResponses(listing, p) ==
    {Resp(200, PageOf(listing, p)), Resp(409, <<>>), Undecodable(200)}

TeiResponses(tei_id) ==
    {Resp(200, <<r>>) : r \in CaseRecords(tei_id)} \cup {Resp(500, <<>>)}

ProgramResponses ==
    {Resp(200, a) : a \in ProgramAttributeLists} \cup {Resp(500, <<>>)}

----------------------------------------------------------------------------
(* 1. Server connectivity *)

\* mutant: the except branch answers True as well
check_auth_always(resp) == TRUE

check_auth(resp) == ~resp.raised

----------------------------------------------------------------------------
(* 2. get_all_enrollments *)

\* "if len(instances) < page_size: break", and "if not instances: break"
\* mutant: a full page is taken for the last one
IsLastPage_inclusive(page_instances) == Len(page_instances) <= page_size

IsLastPage(page_instances) == Len(page_instances) < page_size

----------------------------------------------------------------------------
(* 4. Core helpers *)

\* mutant: any answer that does not raise counts as existing
check_ou_exists_any_2xx(resp) == ~resp.raised

check_ou_exists_in_zebra(resp) == ~resp.raised /\ resp.code = 200

\* mutant: the mapped path is returned whole
get_mapped_ou_unsplit(source_ou_id, m) ==
    LET ou_map == m.organisationUnits
    IN  IF source_ou_id \in DOMAIN ou_map
        THEN <<ou_map[source_ou_id].mappedId>>
        ELSE <<>>

\* Optional[str]: <<>> is None, <<s>> is the string s
get_mapped_ou(source_ou_id, m) ==
    LET ou_map == m.organisationUnits
    IN  IF source_ou_id \in DOMAIN ou_map
        THEN <<Last(split(ou_map[source_ou_id].mappedId, "/"))>>
        ELSE <<>>

\* truth value of an Optional[str]: None and "" are false
Truthy(opt) == opt # <<>> /\ opt[1] # <<>>

\* run_sync lines 254-255: "mapped_ou if mapped_ou else tei_full['orgUnit']"
target_ou_of(source_ou_id, m) ==
    LET mapped_ou == get_mapped_ou(source_ou_id, m)
    IN  IF Truthy(mapped_ou) THEN mapped_ou[1] ELSE source_ou_id

\* mutant: no option-code translation
code_lookup_verbatim(raw_options, val) == val

\* code_lookup.get(val, val); in the dict comprehension a later option wins
code_lookup_get(raw_options, val) ==
    LET hits == {i \in 1..Len(raw_options) :
                    /\ {"code", "mappedCode"} \subseteq DOMAIN raw_options[i]
                    /\ raw_options[i]["code"] = val}
    IN  IF hits = {} THEN val ELSE raw_options[Max(hits)]["mappedCode"]

RECURSIVE map_attributes(_, _, _)
map_attributes(source_attrs, m, allowed_ids) ==
    IF source_attrs = <<>>
    THEN <<>>
    ELSE LET attr == Head(source_attrs)
             src_id == attr.attribute
             val == attr.value
             tea_map == m.trackedEntityAttributesToTEI
             rest == map_attributes(Tail(source_attrs), m, allowed_ids)
         IN  IF allowed_ids # {} /\ src_id \notin allowed_ids
             THEN rest
             ELSE IF src_id \in DOMAIN tea_map
                  THEN <<[attribute |-> tea_map[src_id].mappedId,
                          value |-> code_lookup_get(m.options, val)]>> \o rest
                  ELSE rest

----------------------------------------------------------------------------
(* 5. run_sync: building one queue entry *)

\* the case's enrollments of the program being processed
MatchingEnrollments(tei_full, prog_id) ==
    LET InProgram(e) == e.program = prog_id
    IN  SelectSeq(tei_full.enrollments, InProgram)

\* z_enr_id from the destination's answer; any exception leaves None
z_enr_id_of(resp) ==
    IF ~resp.raised /\ resp.body # <<>> THEN resp.body[1].enrollment ELSE None

TargetEnrollment(source_enr, z_resp, target_prog, target_ou, m, allowed) ==
    [program |-> target_prog,
     enrollment |-> z_enr_id_of(z_resp),
     orgUnit |-> target_ou,
     status |-> "ACTIVE",
     enrolledAt |-> source_enr.enrolledAt,
     attributes |-> map_attributes(source_enr.attributes, m, allowed)]

\* target_enr_list: one entry per enrollment of the case in the program
target_enr_list_of(matching, z_resps, target_prog, target_ou, m, allowed) ==
    [i \in 1..Len(matching) |->
        TargetEnrollment(matching[i], z_resps[i], target_prog, target_ou, m, allowed)]

QueueEntry(tei_id, tei_full, target_prog, target_ou, m, allowed, target_enrs) ==
    [trackedEntity |-> tei_id,
     trackedEntityType |-> TE_TYPE_ZEBRA,
     program |-> target_prog,
     orgUnit |-> target_ou,
     attributes |-> map_attributes(tei_full.attributes, m, allowed),
     enrollments |-> target_enrs]

\* "if tei_id in sync_queue and prog_id == PROG_EBS: continue"
SkipsQueued(queue, tei_id, prog_id) == DictHas(queue, tei_id) /\ prog_id = PROG_EBS

\* mutant: the fallback reports success without any success
individual_result_any(count) == count >= 0

\* "return success_count > 0"
individual_result(count) == count > 0

\* mutant: the first failing record ends the loop
next_tei_abort(idx, raised, n) == IF raised THEN n + 1 ELSE idx + 1

\* "for tei in tei_list": the loop moves on to the next record whether the
\* POST returned or raised RequestException (caught inside the loop body)
next_tei(idx, raised, n) == idx + 1

----------------------------------------------------------------------------
(* The run *)

Programs == {PROG_EBS, PROG_IBS}

Seqs(S, n) == UNION {[1..k -> S] : k \in 0..n}

\* a listing of at most MaxStubs enrollments fits in one page
ShortListings ==
    {<<>>} \cup {<<[i \in 1..Len(cs) |-> Stub(cs[i], i)]>> :
                    cs \in Seqs(Cases, MaxStubs) \ {<<>>}}

\* listings of up to MaxPages pages, each empty, partly filled or full
PageSizes == {0, 13, page_size}
LongPage(k, n) == [i \in 1..n |-> Stub("c1", (k - 1) * page_size + i)]
LongListings ==
    {[k \in 1..Len(sizes) |-> LongPage(k, sizes[k])] : sizes \in Seqs(PageSizes, MaxPages)}

prog_id == source_programs[prog_idx]

NoCall == <<>>

\* run_sync's locals before its first line
InitLocals ==
    /\ mappings = MappingDict({})
    /\ prog_idx = 1
    /\ page = 1
    /\ all_instances = <<>>
    /\ failed_page = 0
    /\ requests = 0
    /\ instances = <<>>
    /\ target_prog_id = None
    /\ allowed_teas = {}
    /\ enr_idx = 1
    /\ sync_queue = <<>>
    /\ payload = <<>>
    /\ payload_file = <<>>
    /\ tei_idx = 1
    /\ success_count = 0
    /\ batch_success = FALSE
    /\ exit_code = NoExit
    /\ uncaught = [exc |-> None, at |-> None]
    /\ auth_failed = FALSE
    /\ io = {}
    /\ posts = <<>>
    /\ analytics_runs = 0
    /\ probe_ok = {}
    /\ admitted = [p \in Programs |-> {}]
    /\ ebs_payload = [c \in Cases |-> <<>>]
    /\ source_enrs = [c \in Cases |-> <<>>]

InitRun ==
    /\ pc = "start"
    /\ call = NoCall
    /\ InitLocals

\* a run over short listings, with any mapping file
Init ==
    /\ mapping_file \in MappingFiles
    /\ origin_pages \in [Programs -> ShortListings]
    /\ InitRun

\* a run whose first program's listing spans several pages
InitFetch ==
    /\ mapping_file = [present |-> TRUE, dict |-> MappingDict(Programs)]
    /\ origin_pages \in {[p \in Programs |-> IF p = PROG_EBS THEN l ELSE <<>>] :
                             l \in LongListings}
    /\ InitRun

\* an exception nobody catches: traceback, exit status 1
Crash(exc, at) ==
    /\ pc' = "crashed"
    /\ exit_code' = 1
    /\ uncaught' = [exc |-> exc, at |-> at]

\* sys.exit(code)
SysExit(code) ==
    /\ pc' = "exited"
    /\ exit_code' = code
    /\ UNCHANGED uncaught

\* get_all_enrollments is entered: lines 65-67
EnterFetch ==
    /\ page' = 1
    /\ all_instances' = <<>>
    /\ failed_page' = 0
    /\ requests' = 0

\* run_sync line 213: load_mappings()
LoadMappings ==
    /\ pc = "start"
    /\ IF mapping_file.present
       THEN /\ mappings' = mapping_file.dict
            /\ pc' = "auth"
            /\ UNCHANGED exitVars
       ELSE /\ Crash("FileNotFoundError", "load_mappings")
            /\ UNCHANGED mappings
    /\ UNCHANGED <<configVars, prog_idx, fetchVars, progVars, queueVars, submitVars, io,
                   auth_failed>>

\* run_sync lines 218-223: both probes, the second only if the first passed
CheckAuth ==
    /\ pc = "auth"
    /\ \E e_resp \in AuthResponses, z_resp \in AuthResponses :
          IF ~check_auth(e_resp)
          THEN /\ io' = io \cup {"eidsr:system/info"}
               /\ auth_failed' = e_resp.raised
               /\ SysExit(1)
               /\ UNCHANGED <<fetchVars, sync_queue>>
          ELSE /\ io' = io \cup {"eidsr:system/info", "zebra:system/info"}
               /\ auth_failed' = (e_resp.raised \/ z_resp.raised)
               /\ IF ~check_auth(z_resp)
                  THEN /\ SysExit(1)
                       /\ UNCHANGED <<fetchVars, sync_queue>>
                  ELSE /\ pc' = "fetch"
                       /\ sync_queue' = <<>>
                       /\ EnterFetch
                       /\ UNCHANGED exitVars
    /\ UNCHANGED <<configVars, mappings, prog_idx, progVars, probe_ok, admitted,
                   ebs_payload, source_enrs, submitVars>>

\* get_all_enrollments lines 69-90: one turn of the while loop, and the return
FetchPage ==
    /\ pc = "fetch"
    /\ \E resp \in PageResponses(origin_pages[prog_id], page) :
          /\ io' = io \cup {"eidsr:tracker/enrollments"}
          /\ requests' = requests + 1
          /\ IF resp.raised \/ ~resp.json
             THEN /\ Crash(IF resp.raised THEN "RequestException" ELSE "JSONDecodeError",
                           "get_all_enrollments")
                  /\ failed_page' = page
                  /\ UNCHANGED <<page, all_instances, instances>>
             ELSE /\ UNCHANGED <<failed_page, exitVars>>
                  /\ IF resp.body = <<>>
                     THEN /\ pc' = "setup"
                          /\ instances' = all_instances
                          /\ UNCHANGED <<page, all_instances>>
                     ELSE /\ all_instances' = all_instances \o resp.body
                          /\ IF IsLastPage(resp.body)
                             THEN /\ pc' = "setup"
                                  /\ instances' = all_instances'
                                  /\ UNCHANGED page
                             ELSE /\ pc' = "fetch"
                                  /\ page' = page + 1
                                  /\ UNCHANGED instances
    /\ UNCHANGED <<configVars, mappings, prog_idx, target_prog_id, allowed_teas,
                   enr_idx, queueVars, submitVars, auth_failed>>

\* run_sync lines 239-244: destination program and the program's attributes
ProgramSetup ==
    /\ pc = "setup"
    /\ IF prog_id \notin DOMAIN mappings.trackerPrograms
       THEN /\ Crash("KeyError", "run_sync")
            /\ UNCHANGED <<target_prog_id, allowed_teas, enr_idx, io, probe_ok>>
       ELSE \E resp \in ProgramResponses :
               /\ target_prog_id' = mappings.trackerPrograms[prog_id].mappedId
               /\ io' = io \cup {"eidsr:programs"}
               /\ IF resp.raised
                  THEN /\ Crash("RequestException", "run_sync")
                       /\ UNCHANGED <<allowed_teas, enr_idx, probe_ok>>
                  ELSE /\ allowed_teas' = {resp.body[i] : i \in 1..Len(resp.body)}
                       /\ enr_idx' = 1
                       /\ probe_ok' = {}
                       /\ pc' = "cases"
                       /\ UNCHANGED exitVars
    /\ UNCHANGED <<configVars, mappings, prog_idx, fetchVars, instances, sync_queue,
                   admitted, ebs_payload, source_enrs, submitVars, auth_failed>>

\* run_sync lines 246-294: one turn of "for enr in instances"
ProcessEnrollment ==
    /\ pc = "cases"
    /\ enr_idx <= Len(instances)
    /\ LET tei_id == instances[enr_idx].trackedEntity
       IN  IF SkipsQueued(sync_queue, tei_id, prog_id)
           THEN /\ enr_idx' = enr_idx + 1
                /\ UNCHANGED <<pc, io, queueVars, exitVars>>
           ELSE \E resp \in TeiResponses(tei_id) :
                  IF resp.raised
                  THEN /\ Crash("RequestException", "run_sync")
                       /\ io' = io \cup {"eidsr:tracker/trackedEntities"}
                       /\ UNCHANGED <<enr_idx, queueVars>>
                  ELSE
                    LET tei_full == resp.body[1]
                        target_ou_to_use == target_ou_of(tei_full.orgUnit, mappings)
                        matching == MatchingEnrollments(tei_full, prog_id)
                    IN  \E probe \in ProbeResponses(target_ou_to_use) :
                          /\ enr_idx' = enr_idx + 1
                          /\ UNCHANGED <<pc, exitVars>>
                          /\ IF ~check_ou_exists_in_zebra(probe)
                             THEN /\ io' = io \cup {"eidsr:tracker/trackedEntities",
                                                   "zebra:organisationUnits"}
                                  /\ UNCHANGED queueVars
                             ELSE \E z_resps \in [1..Len(matching) ->
                                       ZebraEnrollmentResponses(tei_id, target_prog_id,
                                                                target_ou_to_use)] :
                                    LET entry == QueueEntry(tei_id, tei_full, target_prog_id,
                                                     target_ou_to_use, mappings, allowed_teas,
                                                     target_enr_list_of(matching, z_resps,
                                                         target_prog_id, target_ou_to_use,
                                                         mappings, allowed_teas))
                                    IN  /\ io' = io \cup
                                              {"eidsr:tracker/trackedEntities",
                                               "zebra:organisationUnits"} \cup
                                              (IF matching = <<>> THEN {}
                                               ELSE {"zebra:tracker/enrollments"})
                                        /\ sync_queue' = DictSet(sync_queue, tei_id, entry)
                                        /\ probe_ok' = IF probe.code = 200
                                                       THEN probe_ok \cup {tei_id}
                                                       ELSE probe_ok
                                        /\ admitted' = [admitted EXCEPT
                                                          ![prog_id] = @ \cup {tei_id}]
                                        /\ ebs_payload' =
                                              IF prog_id = PROG_EBS
                                              THEN [ebs_payload EXCEPT ![tei_id] = <<entry>>]
                                              ELSE ebs_payload
                                        /\ source_enrs' =
                                              [source_enrs EXCEPT ![tei_id] = matching]
    /\ UNCHANGED <<configVars, mappings, prog_idx, fetchVars, instances, target_prog_id,
                   allowed_teas, submitVars, auth_failed>>

\* mutant: the flush sits inside the loop over the programs
NextProgram_early ==
    /\ pc = "cases"
    /\ enr_idx > Len(instances)
    /\ pc' = "flush"
    /\ UNCHANGED <<prog_idx, fetchVars>>
    /\ UNCHANGED <<configVars, mappings, progVars, queueVars, submitVars, exitVars, io,
                   auth_failed>>

\* run_sync line 233: the program's loop is over; the next program, or line 296
NextProgram ==
    /\ pc = "cases"
    /\ enr_idx > Len(instances)
    /\ IF prog_idx < Len(source_programs)
       THEN /\ prog_idx' = prog_idx + 1
            /\ pc' = "fetch"
            /\ EnterFetch
       ELSE /\ pc' = "flush"
            /\ UNCHANGED <<prog_idx, fetchVars>>
    /\ UNCHANGED <<configVars, mappings, progVars, queueVars, submitVars, exitVars, io,
                   auth_failed>>

\* mutant: the payload is posted without having been saved
WritePayload_unsaved ==
    /\ pc = "flush"
    /\ IF sync_queue # <<>>
       THEN /\ payload' = DictValues(sync_queue)
            /\ pc' = "batch"
            /\ UNCHANGED <<payload_file, exitVars>>
       ELSE /\ pc' = "done"
            /\ exit_code' = 0
            /\ UNCHANGED <<payload, payload_file, uncaught>>
    /\ UNCHANGED <<configVars, mappings, prog_idx, fetchVars, progVars, queueVars,
                   tei_idx, success_count, batch_success, posts, analytics_runs, io,
                   auth_failed>>

\* mutant: the payload is saved and posted even when the queue is empty
WritePayload_always ==
    /\ pc = "flush"
    /\ payload' = DictValues(sync_queue)
    /\ payload_file' = <<DictValues(sync_queue)>>
    /\ pc' = "batch"
    /\ UNCHANGED exitVars
    /\ UNCHANGED <<configVars, mappings, prog_idx, fetchVars, progVars, queueVars,
                   tei_idx, success_count, batch_success, posts, analytics_runs, io,
                   auth_failed>>

\* run_sync lines 296-303: the payload and its file, or nothing to sync
WritePayload ==
    /\ pc = "flush"
    /\ IF sync_queue # <<>>
       THEN /\ payload' = DictValues(sync_queue)
            /\ payload_file' = <<DictValues(sync_queue)>>
            /\ pc' = "batch"
            /\ UNCHANGED exitVars
       ELSE /\ pc' = "done"
            /\ exit_code' = 0
            /\ UNCHANGED <<payload, payload_file, uncaught>>
    /\ UNCHANGED <<configVars, mappings, prog_idx, fetchVars, progVars, queueVars,
                   tei_idx, success_count, batch_success, posts, analytics_runs, io,
                   auth_failed>>

\* mutant: the individual fallback runs whatever the batch POST answered
BatchPost_then_fallback ==
    /\ pc = "batch"
    /\ \E resp \in PostResponses :
          /\ posts' = Append(posts, [kind |-> "batch", records |-> payload,
                                     ok |-> ~resp.raised])
          /\ io' = io \cup {"zebra:tracker"}
          /\ batch_success' = ~resp.raised
          /\ pc' = "individual"
          /\ tei_idx' = 1
          /\ success_count' = 0
    /\ UNCHANGED <<configVars, mappings, prog_idx, fetchVars, progVars, queueVars,
                   payload, payload_file, analytics_runs, exitVars, auth_failed>>

\* post_data_to_zebra lines 123-153: the batch POST, up to the fallback's start
BatchPost ==
    /\ pc = "batch"
    /\ \E resp \in PostResponses :
          /\ posts' = Append(posts, [kind |-> "batch", records |-> payload,
                                     ok |-> ~resp.raised])
          /\ io' = io \cup {"zebra:tracker"}
          /\ IF ~resp.raised
             THEN /\ batch_success' = TRUE
                  /\ pc' = "finally"
                  /\ UNCHANGED <<tei_idx, success_count>>
             ELSE IF payload # <<>>
                  THEN /\ pc' = "individual"
                       /\ tei_idx' = 1
                       /\ success_count' = 0
                       /\ UNCHANGED batch_success
                  ELSE /\ pc' = "finally"
                       /\ UNCHANGED <<tei_idx, success_count, batch_success>>
    /\ UNCHANGED <<configVars, mappings, prog_idx, fetchVars, progVars, queueVars,
                   payload, payload_file, analytics_runs, exitVars, auth_failed>>

\* post_individual_teis lines 101-118: one turn of the loop, and the return
PostIndividual ==
    /\ pc = "individual"
    /\ tei_idx <= Len(payload)
    /\ \E resp \in PostResponses :
          /\ posts' = Append(posts, [kind |-> "single", records |-> <<payload[tei_idx]>>,
                                     ok |-> ~resp.raised])
          /\ io' = io \cup {"zebra:tracker"}
          /\ success_count' = IF resp.raised THEN success_count ELSE success_count + 1
          /\ tei_idx' = next_tei(tei_idx, resp.raised, Len(payload))
          /\ IF tei_idx' > Len(payload)
             THEN /\ batch_success' = individual_result(success_count')
                  /\ pc' = "finally"
             ELSE UNCHANGED <<batch_success, pc>>
    /\ UNCHANGED <<configVars, mappings, prog_idx, fetchVars, progVars, queueVars,
                   payload, payload_file, analytics_runs, exitVars, auth_failed>>

\* post_data_to_zebra lines 155-157 (run_zebra_analytics), then run_sync returns
Finally ==
    /\ pc = "finally"
    /\ IF batch_success
       THEN \E resp \in PostResponses :
               /\ analytics_runs' = analytics_runs + 1
               /\ io' = io \cup {"zebra:resourceTables/analytics"}
       ELSE UNCHANGED <<analytics_runs, io>>
    /\ pc' = "done"
    /\ exit_code' = 0
    /\ UNCHANGED <<configVars, mappings, prog_idx, fetchVars, progVars, queueVars,
                   payload, payload_file, tei_idx, success_count, batch_success,
                   posts, uncaught, auth_failed>>

Next ==
    \/ LoadMappings
    \/ CheckAuth
    \/ FetchPage
    \/ ProgramSetup
    \/ ProcessEnrollment
    \/ NextProgram
    \/ WritePayload
    \/ BatchPost
    \/ PostIndividual
    \/ Finally

Spec == Init /\ [][Next]_vars

----------------------------------------------------------------------------
(* The org-unit rewrite on its own: any origin OU, any organisationUnits table *)

\* mapped paths of at most MaxPath characters
Paths == Seqs({"z", "/"}, MaxPath)

OuTables ==
    UNION {[ks -> {[mappedId |-> q] : q \in Paths}] : ks \in SUBSET {OuA, OuB}}

InitOU ==
    /\ pc = "call"
    /\ call \in {[source_ou_id |-> o, ou_map |-> t, done |-> FALSE, result |-> <<>>] :
                    o \in OriginOUs, t \in OuTables}
    /\ mapping_file = [present |-> TRUE, dict |-> MappingDict(Programs)]
    /\ origin_pages = [p \in Programs |-> <<>>]
    /\ InitLocals

\* run_sync lines 254-255 applied to the call's arguments
ApplyTargetOu ==
    /\ pc = "call"
    /\ call' = [call EXCEPT
                  !.result = target_ou_of(call.source_ou_id,
                                          [organisationUnits |-> call.ou_map]),
                  !.done = TRUE]
    /\ pc' = "returned"
    /\ UNCHANGED runVars

SpecOU == InitOU /\ [][ApplyTargetOu]_vars

----------------------------------------------------------------------------
(* map_attributes on its own: any attribute list, tables and allowed set *)

AttributeIds == {"a1", "a2", "a3"}
AttributeValues == {"M", "F", "X"}

\* attribute lists of at most MaxAttrs pairs
AttributeLists ==
    Seqs([attribute : AttributeIds, value : AttributeValues], MaxAttrs)

\* trackedEntityAttributesToTEI tables: both ids mapped, one, none
TeaTables ==
    {Restrict(trackedEntityAttributesToTEI, ks) :
        ks \in {{"a1", "a2"}, {"a1"}, {}}}

\* options tables: the configured one, none, and one where two options (of
\* different option sets) carry the same code
OptionTables ==
    {options,
     <<>>,
     << ("code" :> "M") @@ ("mappedCode" :> "MALE"),
        ("code" :> "M") @@ ("mappedCode" :> "MAN") >>}

InitAttrs ==
    /\ pc = "call"
    /\ call \in {[source_attrs |-> a, allowed_ids |-> ids, tea_map |-> t,
                   options |-> o, done |-> FALSE, result |-> <<>>] :
                    a \in AttributeLists, ids \in SUBSET AttributeIds,
                    t \in TeaTables, o \in OptionTables}
    /\ mapping_file = [present |-> TRUE, dict |-> MappingDict(Programs)]
    /\ origin_pages = [p \in Programs |-> <<>>]
    /\ InitLocals

\* map_attributes applied to the call's arguments
ApplyMapAttributes ==
    /\ pc = "call"
    /\ call' = [call EXCEPT
                  !.result = map_attributes(call.source_attrs,
                                            [trackedEntityAttributesToTEI |-> call.tea_map,
                                             options |-> call.options],
                                            call.allowed_ids),
                  !.done = TRUE]
    /\ pc' = "returned"
    /\ UNCHANGED runVars

SpecAttrs == InitAttrs /\ [][ApplyMapAttributes]_vars

SpecFetch == InitFetch /\ [][Next]_vars

----------------------------------------------------------------------------
(* Properties *)

QueueKeys == DictKeys(sync_queue)

TargetOf(p) == AllTrackerPrograms[p].mappedId

\* individual POSTs that succeeded (posts[1] is the batch POST)
SinglesOk == {i \in 2..Len(posts) : posts[i].ok}

BatchRejected == posts # <<>> /\ ~posts[1].ok

\* C1: a case admitted in the iterations of both programs is queued, at
\* submission time, with the payload built during the first program (EBS).
C1_FirstWriteWins ==
    pc = "batch" =>
        \A c \in admitted[PROG_EBS] \cap admitted[PROG_IBS] :
            /\ DictGet(sync_queue, c) = ebs_payload[c][1]
            /\ DictGet(sync_queue, c).program = TargetOf(PROG_EBS)

\* the enrollment created first; ties go to the one fetched first
EarliestCreated(enrs) ==
    enrs[CHOOSE i \in 1..Len(enrs) :
            \A j \in 1..Len(enrs) :
                \/ enrs[i].createdAt < enrs[j].createdAt
                \/ enrs[i].createdAt = enrs[j].createdAt /\ i <= j]

\* C2: every queue entry holds at most one enrollment, and when the origin
\* case has two or more enrollments in the program, the one kept is the one
\* with the least creation timestamp.
C2_Deduplicated ==
    \A i \in 1..Len(sync_queue) :
        LET entry == sync_queue[i].value
            src == source_enrs[sync_queue[i].key]
        IN  /\ Len(entry.enrollments) <= 1
            /\ Len(src) >= 2 =>
                  /\ Len(entry.enrollments) = 1
                  /\ entry.enrollments[1].enrolledAt = EarliestCreated(src).enrolledAt

C4_FallbackCompleteness ==
    BatchRejected =>
        /\ \A i \in 2..Len(posts) :
              posts[i].kind = "single" /\ posts[i].records = <<payload[i - 1]>>
        /\ pc = "individual" => Len(posts) = tei_idx
        /\ pc \in {"finally", "done"} =>
              /\ Len(posts) = 1 + Len(payload)
              /\ success_count = Cardinality(SinglesOk)
              /\ batch_success = (Cardinality(SinglesOk) > 0)

\* C4 witness: the first individual POST failed and the second was still sent.
C4_Witness ==
    /\ pc = "finally"
    /\ BatchRejected
    /\ Len(posts) = 3
    /\ ~posts[2].ok
    /\ posts[3].ok
    /\ batch_success

\* index of the first page of a listing that is not full
FirstShortPage(listing) ==
    CHOOSE k \in 1..(Len(listing) + 1) :
        /\ Len(PageOf(listing, k)) < page_size
        /\ \A j \in 1..(k - 1) : Len(PageOf(listing, j)) >= page_size

RECURSIVE ConcatPages(_, _)
ConcatPages(listing, k) ==
    IF k = 0 THEN <<>> ELSE ConcatPages(listing, k - 1) \o PageOf(listing, k)

\* C5: the fetch asks for pages 1, 2, 3, ... and stops at the first page that
\* is not full; it returns the pages up to that one, concatenated in order,
\* after as many requests as that page's index.
C5_Pagination ==
    LET listing == origin_pages[prog_id]
    IN  /\ pc = "fetch" =>
              /\ requests = page - 1
              /\ \A j \in 1..(page - 1) : Len(PageOf(listing, j)) >= page_size
              /\ all_instances = ConcatPages(listing, page - 1)
        /\ pc \in {"setup", "cases"} =>
              /\ requests = FirstShortPage(listing)
              /\ instances = ConcatPages(listing, FirstShortPage(listing))

\* C5 witness: pages of 50, 50 and 13 records gave 113 records in 3 requests.
C5_Witness ==
    /\ pc = "setup"
    /\ Len(origin_pages[prog_id]) = 3
    /\ Len(instances) = 113
    /\ requests = 3

\* C6: when the request or the decoding of page k fails, the fetch returns
\* the records of pages 1..k-1 and the run goes on with them.
C6_PartialFetch ==
    failed_page > 0 =>
        /\ pc # "crashed"
        /\ exit_code = NoExit
        /\ instances = ConcatPages(origin_pages[prog_id], failed_page - 1)

\* C7: a case is written to the queue in a program's iteration only if its
\* OU probe answered HTTP 200 in that iteration; every queued case has a
\* target OU present on the destination; the payload lists exactly the
\* admitted cases, one entry each.
C7_ExistenceGuard ==
    /\ admitted[prog_id] \subseteq probe_ok
    /\ \A i \in 1..Len(sync_queue) : sync_queue[i].value.orgUnit \in ZebraOUs
    /\ QueueKeys = admitted[PROG_EBS] \cup admitted[PROG_IBS]
    /\ Len(sync_queue) = Cardinality(QueueKeys)
    /\ payload_file # <<>> =>
          /\ payload_file[1] = DictValues(sync_queue)
          /\ Len(payload_file[1]) = Cardinality(QueueKeys)

\* C7 witness: of two cases of one program the first was skipped by the guard,
\* the run went on, and the queue and the payload file hold the other alone.
C7_Witness ==
    /\ pc = "batch"
    /\ origin_pages[PROG_EBS] = <<<<Stub("c2", 1), Stub("c1", 2)>>>>
    /\ origin_pages[PROG_IBS] = <<>>
    /\ QueueKeys = {"c1"}
    /\ Len(payload_file[1]) = 1

\* C8: a rejected batch whose individual POSTs all fail ends the run with
\* exit code 3 and no analytics trigger; otherwise the exit code is 0.
C8_ExitCodes ==
    pc = "done" =>
        IF BatchRejected /\ SinglesOk = {}
        THEN exit_code = 3 /\ analytics_runs = 0
        ELSE exit_code = 0

\* C9: a failed connectivity probe of either server ends the run with exit
\* code 1 before any page or case is fetched, anything is queued, or anything
\* is posted to the destination.
C9_AuthAbort ==
    auth_failed =>
        /\ pc = "exited"
        /\ exit_code = 1
        /\ io \subseteq {"eidsr:system/info", "zebra:system/info"}
        /\ requests = 0
        /\ sync_queue = <<>>
        /\ posts = <<>>

\* C9 witness: the origin answered, the destination's probe failed.
C9_Witness ==
    /\ auth_failed
    /\ pc = "exited"
    /\ "zebra:system/info" \in io

\* C10: a missing mapping file or a source program without an entry in
\* trackerPrograms aborts the run before any network request is sent.
C10_ConfigAbortFirst ==
    uncaught.exc \in {"FileNotFoundError", "KeyError"} => io = {}

\* C11: whenever a POST has been sent to the tracker endpoint, the payload
\* file is written and lists exactly the queue's values, in the queue's order,
\* which is the list handed to the batch POST.
C11_AuditBeforePost ==
    posts # <<>> =>
        /\ payload_file # <<>>
        /\ payload_file[1] = [i \in 1..Len(sync_queue) |-> sync_queue[i].value]
        /\ posts[1].kind = "batch"
        /\ posts[1].records = payload_file[1]

\* C11 witness: a batch of two records was posted after the file was written.
C11_Witness ==
    /\ posts # <<>>
    /\ Len(posts[1].records) = 2
    /\ payload_file # <<>>
    /\ Len(payload_file[1]) = 2

\* what follows the last "/" of a path (the whole path if it has none)
LastSegment(path) ==
    LET slashes == {i \in 1..Len(path) : path[i] = "/"}
    IN  IF slashes = {} THEN path ELSE SubSeq(path, Max(slashes) + 1, Len(path))

\* C12 as stated: the target OU is the final segment of the mapped path when
\* the origin id is in organisationUnits, and the origin id otherwise.
C12_OrgUnitRewrite ==
    call.done =>
        call.result =
            IF call.source_ou_id \in DOMAIN call.ou_map
            THEN LastSegment(call.ou_map[call.source_ou_id].mappedId)
            ELSE call.source_ou_id

\* C12 amended: the target OU is the final segment of the mapped path when
\* the origin id is in organisationUnits and that segment is not empty, and
\* the origin id otherwise.
C12_OrgUnitRewriteNonEmpty ==
    call.done =>
        call.result =
            IF /\ call.source_ou_id \in DOMAIN call.ou_map
               /\ LastSegment(call.ou_map[call.source_ou_id].mappedId) # <<>>
            THEN LastSegment(call.ou_map[call.source_ou_id].mappedId)
            ELSE call.source_ou_id

\* C12 witness: a mapped id whose path has several segments was rewritten to
\* the last one.
C12_Witness ==
    /\ call.done
    /\ call.source_ou_id \in DOMAIN call.ou_map
    /\ call.ou_map[call.source_ou_id].mappedId = <<"z", "/", "z">>
    /\ call.result = <<"z">>

\* the source pairs of the call whose id is allowed and has a destination mapping
EligiblePairs ==
    SelectSeq(call.source_attrs,
              LAMBDA a : /\ a.attribute \in call.allowed_ids
                         /\ a.attribute \in DOMAIN call.tea_map)

\* C13: map_attributes emits, in source order, exactly one pair for each
\* source pair whose id is in the provided allowed set (the empty set
\* included) and has a destination mapping, and nothing for any other pair.
C13_AttributeFiltering ==
    call.done =>
        [i \in 1..Len(call.result) |-> call.result[i].attribute] =
            [i \in 1..Len(EligiblePairs) |->
                call.tea_map[EligiblePairs[i].attribute].mappedId]

\* the source pairs of the call that reach the output, in source order
EmittedPairs ==
    SelectSeq(call.source_attrs,
              LAMBDA a : /\ call.allowed_ids = {} \/ a.attribute \in call.allowed_ids
                         /\ a.attribute \in DOMAIN call.tea_map)

\* destination codes of the options entries (with both fields) whose code is val
MappedCodes(val) ==
    {call.options[i]["mappedCode"] :
        i \in {j \in 1..Len(call.options) :
                  /\ "code" \in DOMAIN call.options[j]
                  /\ "mappedCode" \in DOMAIN call.options[j]
                  /\ call.options[j]["code"] = val}}

\* C14: every emitted value is the destination code of an options entry whose
\* code is the source value when there is one, the source value verbatim
\* otherwise; equal source values give equal output values whatever the id.
C14_OptionRewrite ==
    call.done =>
        /\ Len(call.result) = Len(EmittedPairs)
        /\ \A i \in 1..Len(call.result) :
              IF MappedCodes(EmittedPairs[i].value) = {}
              THEN call.result[i].value = EmittedPairs[i].value
              ELSE call.result[i].value \in MappedCodes(EmittedPairs[i].value)
        /\ \A i, j \in 1..Len(call.result) :
              EmittedPairs[i].value = EmittedPairs[j].value =>
                  call.result[i].value = call.result[j].value

\* C14 witness: one value was rewritten to its destination code and another,
\* matching no complete option, passed through.
C14_Witness ==
    /\ call.done
    /\ call.source_attrs = <<[attribute |-> "a1", value |-> "M"],
                             [attribute |-> "a2", value |-> "F"]>>
    /\ call.options = options
    /\ call.result = <<[attribute |-> "zA1", value |-> "MALE"],
                       [attribute |-> "zA2", value |-> "F"]>>

\* C15: a value stored in the sync queue under a case id stays under that id,
\* unchanged, in every later step of the run.
C15_QueueEntryImmutable ==
    [][\A k \in QueueKeys :
          /\ DictHas(sync_queue', k)
          /\ DictGet(sync_queue', k) = DictGet(sync_queue, k)]_vars

\* C17: every enrollment of a queue entry carries the status and the
\* enrolledAt of the origin enrollment it was translated from.
C17_StatusCarryOver ==
    \A i \in 1..Len(sync_queue) :
        LET enrs == sync_queue[i].value.enrollments
            src == source_enrs[sync_queue[i].key]
        IN  /\ Len(enrs) = Len(src)
            /\ \A j \in 1..Len(enrs) :
                  /\ enrs[j].status = src[j].status
                  /\ enrs[j].enrolledAt = src[j].enrolledAt

\* positions of the run inside post_data_to_zebra, and after it
SubmissionPcs == {"batch", "individual", "finally", "done"}

\* C16: a tracker POST has been sent only when every source program has been
\* processed to its last enrollment, and from the first POST on the run stays
\* in the submission phase: no origin page is requested, no instance is
\* fetched and the sync queue does not change.
C16_StrictPhasing ==
    [][/\ posts' # <<>> =>
            /\ pc' \in SubmissionPcs
            /\ prog_idx' = Len(source_programs)
            /\ enr_idx' > Len(instances')
       /\ posts # <<>> =>
            /\ pc \in SubmissionPcs
            /\ sync_queue' = sync_queue
            /\ requests' = requests
            /\ all_instances' = all_instances
            /\ instances' = instances
            /\ {r \in io' : r \notin io} \subseteq
                   {"zebra:tracker", "zebra:resourceTables/analytics"}]_vars

\* C16 witness: cases of both programs were queued, the batch POST was
\* rejected, an individual POST failed too, and the run ended.
C16_Witness ==
    /\ pc = "done"
    /\ admitted[PROG_EBS] # {}
    /\ admitted[PROG_IBS] # {}
    /\ Len(posts) >= 2
    /\ \E i \in 2..Len(posts) : ~posts[i].ok

\* C18: the queue entry under key k has trackedEntity = k, each of its
\* enrollments has the entry's program and orgUnit, and no two records of the
\* payload, or of a POSTed list, have the same trackedEntity.
C18_EntryConsistency ==
    /\ \A i \in 1..Len(sync_queue) :
          LET entry == sync_queue[i].value
          IN  /\ entry.trackedEntity = sync_queue[i].key
              /\ \A j \in 1..Len(entry.enrollments) :
                    /\ entry.enrollments[j].program = entry.program
                    /\ entry.enrollments[j].orgUnit = entry.orgUnit
    /\ \A i, j \in 1..Len(payload) :
          payload[i].trackedEntity = payload[j].trackedEntity => i = j
    /\ posts # <<>> =>
          \A i, j \in 1..Len(posts[1].records) :
              posts[1].records[i].trackedEntity = posts[1].records[j].trackedEntity
                  => i = j

\* C18 witness: two cases were posted, one of them queued in the iterations
\* of both programs and carrying an enrollment.
C18_Witness ==
    /\ posts # <<>>
    /\ Len(posts[1].records) = 2
    /\ admitted[PROG_EBS] \cap admitted[PROG_IBS] # {}
    /\ \E i \in 1..2 : posts[1].records[i].enrollments # <<>>

\* C19: while the sync queue is empty, and so when the run ends with nothing
\* to sync, no tracker POST was sent, analytics was not triggered and the
\* payload file was not written.
C19_NothingToSync ==
    sync_queue = <<>> =>
        /\ posts = <<>>
        /\ analytics_runs = 0
        /\ payload_file = <<>>
        /\ "zebra:tracker" \notin io
        /\ "zebra:resourceTables/analytics" \notin io

\* C19 witness: the run ended with an empty queue after a case was fetched
\* and turned away by the OU guard.
C19_Witness ==
    /\ pc = "done"
    /\ sync_queue = <<>>
    /\ "zebra:organisationUnits" \in io
    /\ exit_code = 0

\* C20: the first tracker POST is the batch and individual POSTs follow only
\* a rejected batch, so at most 1 + N POSTs are sent for N records; analytics
\* is triggered at most once, and only when the batch was accepted or every
\* record has had its individual attempt, after which nothing is POSTed.
C20_SubmissionOrdering ==
    /\ posts # <<>> =>
          /\ posts[1].kind = "batch"
          /\ \A i \in 2..Len(posts) : posts[i].kind = "single" /\ ~posts[1].ok
          /\ posts[1].ok => Len(posts) = 1
    /\ Len(posts) <= 1 + Len(payload)
    /\ analytics_runs <= 1
    /\ analytics_runs = 1 =>
          /\ pc = "done"
          /\ posts # <<>>
          /\ posts[1].ok \/ Len(posts) = 1 + Len(payload)

\* C20 witness: the batch of two records was rejected, both records were
\* posted one by one, then analytics was triggered once.
C20_Witness ==
    /\ pc = "done"
    /\ Len(payload) = 2
    /\ Len(posts) = 3
    /\ ~posts[1].ok
    /\ analytics_runs = 1

====
